---------------------------- MODULE Spec2Model ----------------------------
(***************************************************************************)
(* A model of the motion detector: the rectangle merger (merge_rects), the *)
(* rectangle tracker (RectMatcher), the pipeline stage (PipelineStep and   *)
(* its worker loop) and the two-stage multi-process pipeline               *)
(* (presenter_main).                                                       *)
(*                                                                         *)
(* Distances are floats in the source.  Every comparison the source makes  *)
(* on them is between square roots of small integers, so the model keeps   *)
(* the squares: rect_dist_sq4 is 4 * rect_dist^2, rect_diagonal_sq is      *)
(* rect_diagonal^2, and  a < b  is decided as  a^2 < b^2.                  *)
(***************************************************************************)
EXTENDS Integers, Sequences, FiniteSets, TLC

VARIABLES
    \* merge_rects
    m_args,       \* the caller's list as it was at each call of merge_rects
    m_rects,      \* the list object `rects` (sorted and popped in place)
    m_pc,         \* position inside merge_rects
    m_ret,        \* the lists returned so far, one per completed call
    m_passes,     \* merging passes of the while loop in the current call
    \* RectMatcher
    smoothRects,  \* self.smoothRects: a list of references to SmoothRect objects
    ent,          \* the SmoothRect objects that are referenced: id -> four windows
    nextId,       \* the identity the next constructed SmoothRect gets
    t_calls,      \* number of calls of set() so far
    t_rects,      \* the argument of the last call of set()
    t_prev,       \* self.smoothRects as it stood before the last call
    t_prevEnt,    \* the SmoothRect objects as they stood before the last call
    t_matched,    \* objects on which the last call called update()
    t_created,    \* objects the last call constructed
    t_dropped,    \* objects some call has dropped from self.smoothRects
    \* PipelineStep, process_pipeline_step, presenter_main
    queue,        \* the multiprocessing queues: queue[s] feeds stage s, queue[s+1] is fed by it
    process,      \* PipelineStep.process of each stage: a worker, or 0 for None
    nworkers,     \* worker processes spawned so far
    wstage,       \* the stage each worker process belongs to (0: not spawned)
    wpc,          \* each worker's position in process_pipeline_step
    wdata,        \* the message `data` the worker is processing
    wres,         \* the `result` the worker is about to put
    wloc,         \* the worker process's own memory: the generator and the globals
    wkill,        \* SIGKILL has been sent to the worker by stop()
    wwake,        \* None was put on the queue while the worker waited on it, empty
    ninputs,      \* calls of input() so far
    nstops,       \* calls of stop() so far
    raised,       \* the last call of a PipelineStep method raised
    h_start,      \* the last start(): <<stage, had an active worker, spawned>>
    c_pc,         \* presenter_main's position
    shown,        \* the frames presenter_main has shown, in order
    video,        \* the input file: <<can be opened (1 or 0), number of frames>>
    \* motion_detection_process
    d_avg,        \* ctx['avg_frame_gray']: unset (None), or num / 2^exp in every pixel
    d_frames,     \* the frames passed to the calls so far, in order
    d_ret,        \* the list the last call returned
    d_branch,     \* what the last call did: "seed" (lines 141-142) or "diff" (143-163)
    d_seeds,      \* number of executions of line 141
    \* bounding_rect
    b_rects,      \* the argument of bounding_rect
    b_ret,        \* <<>> before the call, then <<the tuple returned>>
    \* a SmoothRect on its own
    s_sr,         \* its four windows
    s_obs,        \* every rectangle it has received, in arrival order
    s_turns       \* how often a rectangle differed from the one before it

mvars == <<m_args, m_rects, m_pc, m_ret, m_passes>>

tvars == <<smoothRects, ent, nextId, t_calls, t_rects, t_prev, t_prevEnt,
           t_matched, t_created, t_dropped>>

pvars == <<queue, process, nworkers, wstage, wpc, wdata, wres, wloc,
                   wkill, wwake, ninputs, nstops, raised, h_start, c_pc, shown,
                   video>>

dvars == <<d_avg, d_frames, d_ret, d_branch, d_seeds>>

bvars == <<b_rects, b_ret>>

svars == <<s_sr, s_obs, s_turns>>

vars == <<mvars, tvars, pvars, dvars, bvars, svars>>

---------------------------------------------------------------------------
\* Bounds of the model.

\* longest list handed to merge_rects
MaxRects == 3

\* rectangle coordinates of the merger's inputs
MergeXs == 0..2
MergeYs == 0..1

---------------------------------------------------------------------------
\* Helpers.

Max2(a, b) == IF a >= b THEN a ELSE b

Min2_left(a, b) == a

Min2(a, b) == IF a <= b THEN a ELSE b

SeqsUpTo(S, n) == UNION {[1..k -> S] : k \in 0..n}

\* well-formed rectangles (x1, y1, x2, y2) over two coordinate sets
RectsOver(XS, YS) ==
    {<<x1, y1, x2, y2>> : x1 \in XS, y1 \in YS, x2 \in XS, y2 \in YS}
        \cap {r \in (XS \X YS \X XS \X YS) : r[1] <= r[3] /\ r[2] <= r[4]}

MergeRectSet == RectsOver(MergeXs, MergeYs)

---------------------------------------------------------------------------
\* Geometry (motion_detector.py, utils.py).

\* 4 * rect_dist(r1, r2)^2: the centers are ((x1+x2)/2, (y1+y2)/2)
rect_dist_sq4(r1, r2) ==
    ((r1[1] + r1[3]) - (r2[1] + r2[3])) * ((r1[1] + r1[3]) - (r2[1] + r2[3]))
  + ((r1[2] + r1[4]) - (r2[2] + r2[4])) * ((r1[2] + r1[4]) - (r2[2] + r2[4]))

\* rect_diagonal(rect)^2
rect_diagonal_sq(rect) ==
    (rect[3] - rect[1]) * (rect[3] - rect[1])
  + (rect[4] - rect[2]) * (rect[4] - rect[2])

bounding_rect2_first(a, b) == a

\* bounding_rect([a, b])
bounding_rect2(a, b) ==
    <<Min2(a[1], b[1]), Min2(a[2], b[2]), Max2(a[3], b[3]), Max2(a[4], b[4])>>

\* rect_dist(a, b) < max(rect_diagonal(a), rect_diagonal(b))
MergeCond(a, b) ==
    rect_dist_sq4(a, b) < 4 * Max2(rect_diagonal_sq(a), rect_diagonal_sq(b))

---------------------------------------------------------------------------
\* rects.sort(key=cmp_to_key(lambda a, b: rect_dist(a, b)))
\*
\* cmp_to_key wraps each element in a key whose __lt__ is  cmp(a, b) < 0.
\* list.sort finds the leading run (reversing it when strictly descending)
\* and inserts the remaining elements by binary insertion (lists shorter
\* than 64 elements).

\* the comparator's result, up to a positive factor: rect_dist is never
\* negative, and is 0 exactly when the centers coincide
rect_cmp(a, b) == rect_dist_sq4(a, b)

KeyLt_flipped(a, b) == rect_cmp(a, b) > 0

\* K(a) < K(b)
KeyLt(a, b) == rect_cmp(a, b) < 0

Reverse(s) == [i \in 1..Len(s) |-> s[Len(s) + 1 - i]]

RECURSIVE RunEnd(_, _, _)
\* the end of the run that starts at 1, given that it reaches k
RunEnd(s, k, descending) ==
    IF k >= Len(s) THEN k
    ELSE IF KeyLt(s[k + 1], s[k]) = descending THEN RunEnd(s, k + 1, descending)
    ELSE k

RECURSIVE BinaryPos(_, _, _, _)
\* binary search of the place of pivot in the sorted prefix s[1..], between
\* l and r (0-based, as in listobject.c's binarysort)
BinaryPos(s, pivot, l, r) ==
    IF l >= r THEN l
    ELSE LET p == l + ((r - l) \div 2)
         IN  IF KeyLt(pivot, s[p + 1]) THEN BinaryPos(s, pivot, l, p)
             ELSE BinaryPos(s, pivot, p + 1, r)

InsertAt(s, pos, x) ==
    SubSeq(s, 1, pos) \o <<x>> \o SubSeq(s, pos + 1, Len(s))

RECURSIVE BinarySort(_, _)
\* s[1..start] is sorted; insert s[start+1..]
BinarySort(s, start) ==
    IF start >= Len(s) THEN s
    ELSE LET pivot == s[start + 1]
             pos == BinaryPos(s, pivot, 0, start)
             placed == InsertAt(SubSeq(s, 1, start), pos, pivot)
                         \o SubSeq(s, start + 2, Len(s))
         IN  BinarySort(placed, start + 1)

ListSort(s) ==
    IF Len(s) < 2 THEN s
    ELSE LET descending == KeyLt(s[2], s[1])
             n == RunEnd(s, 2, descending)
             run == SubSeq(s, 1, n)
             head == IF descending THEN Reverse(run) ELSE run
         IN  BinarySort(head \o SubSeq(s, n + 1, Len(s)), n)

---------------------------------------------------------------------------
\* merge_rects (motion_detector.py 89-114)

\* range(len(rects) - 2), 0-based
ScanRange(rects) == 0..(Len(rects) - 3)

\* the indices i of the for loop at which the if of line 109 is taken
MergeAt(rects) ==
    {i \in ScanRange(rects) : MergeCond(rects[i + 1], rects[i + 2])}

SetMin(S) == CHOOSE x \in S : \A y \in S : x <= y

MergePair_nopop(rects, i) ==
    SubSeq(rects, 1, i)
      \o <<bounding_rect2(rects[i + 1], rects[i + 2])>>
      \o SubSeq(rects, i + 2, Len(rects))

\* lines 110-111 at index i (0-based)
MergePair(rects, i) ==
    SubSeq(rects, 1, i)
      \o <<bounding_rect2(rects[i + 1], rects[i + 2])>>
      \o SubSeq(rects, i + 3, Len(rects))

\* line 103
MergeSort ==
    /\ m_pc = "sort"
    /\ m_rects' = ListSort(m_rects)
    /\ m_pc' = "while"
    /\ UNCHANGED <<m_args, m_ret, m_passes, tvars, pvars, dvars, bvars, svars>>

\* one pass of the while loop, lines 105-113
MergePass ==
    /\ m_pc = "while"
    /\ \/ /\ MergeAt(m_rects) # {}
          /\ m_rects' = MergePair(m_rects, SetMin(MergeAt(m_rects)))
          /\ m_passes' = m_passes + 1
          /\ m_pc' = "while"
       \/ /\ MergeAt(m_rects) = {}
          /\ m_pc' = "return"
          /\ UNCHANGED <<m_rects, m_passes>>
    /\ UNCHANGED <<m_args, m_ret, tvars, pvars, dvars, bvars, svars>>

\* line 114
MergeReturn ==
    /\ m_pc = "return"
    /\ m_ret' = Append(m_ret, m_rects)
    /\ m_pc' = "idle"
    /\ UNCHANGED <<m_args, m_rects, m_passes, tvars, pvars, dvars, bvars, svars>>

\* the caller hands the returned list to merge_rects again
MergeAgain ==
    /\ m_pc = "idle"
    /\ Len(m_ret) < 2
    /\ m_args' = Append(m_args, m_rects)
    /\ m_passes' = 0
    /\ m_pc' = "sort"
    /\ UNCHANGED <<m_rects, m_ret, tvars, pvars, dvars, bvars, svars>>

---------------------------------------------------------------------------
\* MovingAverage, SmoothRect, RectMatcher (utils.py)

\* SmoothRect.__init__'s default window_size
WindowSize == 30

\* RectMatcher.__init__'s default dist
MatchDist == 10

\* most calls of set() in one run
MaxCalls == 3

\* lengths of the lists handed to set()
FrameSizes == 0..2

\* the rectangles the detections are drawn from: a rectangle, the same
\* shifted by 3 (near), by 8 (far from the first, near the second), and a
\* distant one of another shape
TrackRectSet ==
    {<<0, 0, 4, 4>>, <<3, 3, 7, 7>>, <<8, 8, 12, 12>>, <<30, 2, 36, 5>>}

RECURSIVE SeqSum(_)
SeqSum(s) == IF s = <<>> THEN 0 ELSE Head(s) + SeqSum(Tail(s))

Range(s) == {s[i] : i \in 1..Len(s)}

\* round(s / n) for s >= 0, n > 0: Python rounds a half to the even neighbour
RoundDiv(s, n) ==
    LET q == s \div n
        r == s % n
    IN  IF 2 * r < n THEN q
        ELSE IF 2 * r > n THEN q + 1
        ELSE IF q % 2 = 0 THEN q ELSE q + 1

MovingAverage_add_latest(values, value) == <<value>>

MovingAverage_add_nopop(values, value) == Append(values, value)

\* MovingAverage.add
MovingAverage_add(values, value) ==
    LET appended == Append(values, value)
    IN  IF Len(appended) > WindowSize THEN Tail(appended) ELSE appended

\* round(MovingAverage.average())
MovingAverage_rounded(values) ==
    IF Len(values) = 0 THEN 0 ELSE RoundDiv(SeqSum(values), Len(values))

\* SmoothRect.update
SmoothRect_update(sr, rect) ==
    [x1 |-> MovingAverage_add(sr.x1, rect[1]),
     y1 |-> MovingAverage_add(sr.y1, rect[2]),
     x2 |-> MovingAverage_add(sr.x2, rect[3]),
     y2 |-> MovingAverage_add(sr.y2, rect[4])]

\* SmoothRect(rect)
SmoothRect_new(rect) ==
    SmoothRect_update([x1 |-> <<>>, y1 |-> <<>>, x2 |-> <<>>, y2 |-> <<>>], rect)

\* SmoothRect.rect
SmoothRect_rect(sr) ==
    <<MovingAverage_rounded(sr.x1), MovingAverage_rounded(sr.y1),
      MovingAverage_rounded(sr.x2), MovingAverage_rounded(sr.y2)>>

Near_always(new_rect, r) == TRUE

\* rect_dist(new_rect, r.rect()) < self.dist
Near(new_rect, r) == rect_dist_sq4(new_rect, r) < 4 * MatchDist * MatchDist

RECURSIVE FindMatch_last(_, _, _, _)
FindMatch_last(heap, list, new_rect, p) ==
    LET near == {q \in p..Len(list) : Near(new_rect, SmoothRect_rect(heap[list[q]]))}
    IN  IF near = {} THEN 0 ELSE CHOOSE q \in near : \A o \in near : o <= q

RECURSIVE FindMatch(_, _, _, _)
\* the inner for loop of set(): the position in `list`, from p on, of the
\* first object whose rect() is near new_rect; 0 when the loop ends unbroken
FindMatch(heap, list, new_rect, p) ==
    IF p > Len(list) THEN 0
    ELSE IF Near(new_rect, SmoothRect_rect(heap[list[p]])) THEN p
    ELSE FindMatch(heap, list, new_rect, p + 1)

RECURSIVE SetLoop(_, _, _)
\* the outer for loop of set() from rects[k] on; st holds the objects, the
\* list being built and what has been updated and constructed so far
SetLoop(rects, k, st) ==
    IF k > Len(rects) THEN st
    ELSE LET new_rect == rects[k]
             p == FindMatch(st.heap, smoothRects, new_rect, 1)
         IN  IF p # 0
             THEN LET r == smoothRects[p]
                  IN  SetLoop(rects, k + 1,
                        [st EXCEPT
                           !.heap = [@ EXCEPT ![r] = SmoothRect_update(@, new_rect)],
                           !.new = Append(@, r),
                           !.matched = @ \cup {r}])
             ELSE SetLoop(rects, k + 1,
                        [heap |-> [i \in DOMAIN st.heap \cup {st.next} |->
                                     IF i = st.next THEN SmoothRect_new(new_rect)
                                     ELSE st.heap[i]],
                         new |-> Append(st.new, st.next),
                         next |-> st.next + 1,
                         matched |-> st.matched,
                         created |-> st.created \cup {st.next}])

NewList_appended(old, new) == old \o new

\* line 138: self.smoothRects = new_smoothRects
NewList(old, new) == new

\* RectMatcher.set(rects), lines 127-138
Set(rects) ==
    /\ t_calls < MaxCalls
    /\ \E done \in {SetLoop(rects, 1,
                       [heap |-> ent, new |-> <<>>, next |-> nextId,
                        matched |-> {}, created |-> {}])} :
        \E list \in {NewList(smoothRects, done.new)} :
            /\ smoothRects' = list
            \* objects no longer referenced are garbage
            /\ ent' = [i \in Range(list) |-> done.heap[i]]
            /\ nextId' = done.next
            /\ t_rects' = rects
            /\ t_prev' = smoothRects
            /\ t_prevEnt' = ent
            /\ t_matched' = done.matched
            /\ t_created' = done.created
            /\ t_dropped' = t_dropped \cup (Range(smoothRects) \ Range(list))
    /\ t_calls' = t_calls + 1
    /\ UNCHANGED <<mvars, pvars, dvars, bvars, svars>>

TrackNext ==
    \E rects \in UNION {[1..n -> TrackRectSet] : n \in FrameSizes} : Set(rects)

\* the rectangles of the first frame of the two-frame runs
ShiftRectSet == RectsOver(0..3, 0..3)

\* a rectangle moved by 3 along both axes
Shifted(r) == <<r[1] + 3, r[2] + 3, r[3] + 3, r[4] + 3>>

\* set([R]) on the tracker as constructed
SetFirst ==
    /\ t_calls = 0
    /\ \E R \in ShiftRectSet : Set(<<R>>)

\* set([R']) next, R' being the rectangle of the first call moved by 3
SetShifted ==
    /\ t_calls = 1
    /\ Set(<<Shifted(t_rects[1])>>)

---------------------------------------------------------------------------
\* PipelineStep and process_pipeline_step (pipeline.py)
\*
\* A message is a pair: None is <<0, 0>>, the d-th input is <<d, 0>> and the
\* k-th result a transform produces from it is <<d, k>>.  Stage s reads
\* queue[s] and writes queue[s + 1], as presenter_main wires its two stages.

\* calls of input() in one run of a single stage
MaxInputs == 1

\* calls of stop() in one run of a single stage
MaxStops == 1

\* frames of the longest input file
MaxFrames == 3

\* a stage spawns a worker only while it has none, so a run with n calls of
\* stop() sees at most n + 1 workers of one stage; presenter_main spawns two
Workers == 1..(MaxStops + 1)

Stages == {1, 2}

None == <<0, 0>>

Live == {"get", "run", "put"}

InQ(s) == s

OutQ(s) == s + 1

NoLoc == [k |-> 0, cap |-> "none", pos |-> 0]

QueueTake_newest(q) == [msg |-> q[Len(q)], rest |-> SubSeq(q, 1, Len(q) - 1)]

\* Queue.get() on a queue that is not empty: the message handed out and the
\* queue that is left
QueueTake(q) == [msg |-> Head(q), rest |-> Tail(q)]

\* Queue.put(m)
QueuePut(q, m) == Append(q, m)

IsSentinel_never(data) == FALSE

\* line 6: if data is None
IsSentinel(data) == data = None

\* the workers of stage s that execute and have not been sent SIGKILL
ActiveWorkers(s) ==
    {w \in Workers : wstage[w] = s /\ wpc[w] \in Live /\ ~wkill[w]}

\* wwake once None is put on queue[s]: the workers that wait in get() on
\* the empty queue are added
Woken(s) ==
    [w \in Workers |->
        \/ wwake[w]
        \/ wstage[w] = s /\ wpc[w] = "get" /\ queue[InQ(s)] = <<>>]

\* line 40: if self.process is None
StartsWorker(s) == process[s] = 0

\* PipelineStep.start, lines 40-42, as part of a call
StartEffect(s) ==
    IF StartsWorker(s)
    THEN /\ nworkers + 1 \in Workers
         /\ nworkers' = nworkers + 1
         /\ process' = [process EXCEPT ![s] = nworkers + 1]
         /\ wstage' = [wstage EXCEPT ![nworkers + 1] = s]
         /\ wpc' = [wpc EXCEPT ![nworkers + 1] = "get"]
         /\ h_start' = <<s, IF ActiveWorkers(s) # {} THEN 1 ELSE 0, 1>>
    ELSE /\ h_start' = <<s, IF ActiveWorkers(s) # {} THEN 1 ELSE 0, 0>>
         /\ UNCHANGED <<nworkers, process, wstage, wpc>>

\* PipelineStep.start
Start(s) ==
    /\ StartEffect(s)
    /\ raised' = FALSE
    /\ UNCHANGED <<queue, wdata, wres, wloc, wkill, wwake, ninputs, nstops>>

\* PipelineStep.input, lines 58-59
InputEffect(s, data) ==
    /\ StartEffect(s)
    /\ queue' = [queue EXCEPT ![InQ(s)] = QueuePut(@, data)]
    /\ wwake' = IF data = None THEN Woken(s) ELSE wwake
    /\ UNCHANGED <<wdata, wres, wloc, wkill, nstops>>

\* PipelineStep.stop, lines 46-50 (no stage of the program has a
\* cleanup_func).  kill() sends SIGKILL and does not wait for the worker to
\* die; with self.process None line 47 raises AttributeError.
StopEffect(s) ==
    /\ queue' = [queue EXCEPT ![InQ(s)] = QueuePut(@, None)]
    /\ wwake' = Woken(s)
    /\ \/ /\ process[s] = 0
          /\ raised' = TRUE
          /\ UNCHANGED <<process, wkill>>
       \/ /\ process[s] # 0
          /\ wkill' = [wkill EXCEPT ![process[s]] = TRUE]
          /\ process' = [process EXCEPT ![s] = 0]
          /\ raised' = FALSE
    /\ UNCHANGED <<nworkers, wstage, wpc, wdata, wres, wloc, h_start>>

\* PipelineStep.output(), lines 61-65: get(False) raises Empty on an empty
\* queue, and the bare except turns that into None
Output_result(s) ==
    IF queue[OutQ(s)] = <<>> THEN None ELSE QueueTake(queue[OutQ(s)]).msg

\* the SIGKILL sent by stop() reaches the worker process
KillDeliver(w) ==
    /\ wkill[w]
    /\ wpc[w] \in Live
    /\ wpc' = [wpc EXCEPT ![w] = "killed"]
    /\ UNCHANGED <<queue, process, nworkers, wstage, wdata, wres, wloc, wkill,
                   wwake, ninputs, nstops, raised, h_start, c_pc, shown,
                   video>>
    /\ UNCHANGED <<mvars, tvars, dvars, bvars, svars>>

\* process_pipeline_step, lines 5-8: data = input_queue.get(); a None ends
\* the loop, anything else is handed to func, which makes a generator
WorkerGet(w) ==
    /\ wpc[w] = "get"
    /\ queue[InQ(wstage[w])] # <<>>
    /\ LET data == QueueTake(queue[InQ(wstage[w])]).msg
       IN  /\ queue' = [queue EXCEPT ![InQ(wstage[w])] = QueueTake(@).rest]
           /\ IF IsSentinel(data)
              THEN /\ wpc' = [wpc EXCEPT ![w] = "exited"]
                   /\ UNCHANGED <<wdata, wloc>>
              ELSE /\ wpc' = [wpc EXCEPT ![w] = "run"]
                   /\ wdata' = [wdata EXCEPT ![w] = data]
                   /\ wloc' = [wloc EXCEPT ![w].k = 0]
    /\ UNCHANGED <<process, nworkers, wstage, wres, wkill, wwake, ninputs,
                   nstops, raised, h_start, c_pc, shown, video>>
    /\ UNCHANGED <<mvars, tvars, dvars, bvars, svars>>

\* line 9: output_queue.put(result)
WorkerPut(w) ==
    /\ wpc[w] = "put"
    /\ queue' = [queue EXCEPT ![OutQ(wstage[w])] = QueuePut(@, wres[w])]
    /\ wpc' = [wpc EXCEPT ![w] = "run"]
    /\ UNCHANGED <<process, nworkers, wstage, wdata, wres, wloc, wkill, wwake,
                   ninputs, nstops, raised, h_start, c_pc, shown, video>>
    /\ UNCHANGED <<mvars, tvars, dvars, bvars, svars>>

\* line 8, the for statement asking the generator for its next result, for
\* an arbitrary transform: it yields a result, is exhausted, or raises (the
\* exception leaves process_pipeline_step and ends the worker process).
\* The d-th input is given at most d results.
WorkerResume(w) ==
    /\ wpc[w] = "run"
    /\ \/ /\ wloc[w].k < wdata[w][1]
          /\ wres' = [wres EXCEPT ![w] = <<wdata[w][1], wloc[w].k + 1>>]
          /\ wloc' = [wloc EXCEPT ![w].k = @ + 1]
          /\ wpc' = [wpc EXCEPT ![w] = "put"]
       \/ /\ wpc' = [wpc EXCEPT ![w] = "get"]
          /\ UNCHANGED <<wres, wloc>>
       \/ /\ wpc' = [wpc EXCEPT ![w] = "crashed"]
          /\ UNCHANGED <<wres, wloc>>
    /\ UNCHANGED <<queue, process, nworkers, wstage, wdata, wkill, wwake,
                   ninputs, nstops, raised, h_start, c_pc, shown, video>>
    /\ UNCHANGED <<mvars, tvars, dvars, bvars, svars>>

---------------------------------------------------------------------------
\* A single stage driven by arbitrary calls of its methods.

CallStart ==
    /\ Start(1)
    /\ UNCHANGED <<c_pc, shown, video>>
    /\ UNCHANGED <<mvars, tvars, dvars, bvars, svars>>

\* input(data) with a fresh message, or with None
CallInput ==
    /\ ninputs < MaxInputs
    /\ \E data \in {<<ninputs + 1, 0>>, None} : InputEffect(1, data)
    /\ ninputs' = ninputs + 1
    /\ raised' = FALSE
    /\ UNCHANGED <<c_pc, shown, video>>
    /\ UNCHANGED <<mvars, tvars, dvars, bvars, svars>>

CallStop ==
    /\ nstops < MaxStops
    /\ StopEffect(1)
    /\ nstops' = nstops + 1
    /\ UNCHANGED <<ninputs, c_pc, shown, video>>
    /\ UNCHANGED <<mvars, tvars, dvars, bvars, svars>>

CallOutput ==
    /\ queue' = [queue EXCEPT ![OutQ(1)] = IF @ = <<>> THEN @ ELSE QueueTake(@).rest]
    /\ raised' = FALSE
    /\ UNCHANGED <<process, nworkers, wstage, wpc, wdata, wres, wloc, wkill,
                   wwake, ninputs, nstops, h_start, c_pc, shown, video>>
    /\ UNCHANGED <<mvars, tvars, dvars, bvars, svars>>

---------------------------------------------------------------------------
\* The multi-process program (main-multi-process.py).

\* streamer_main resumed: lines 32-33 open the file on the first call in
\* this process; lines 36-46 return when the capture is not open or has no
\* more frames, and yield the next frame otherwise; line 48 releases the
\* capture when the generator ends.
StreamerResume(w) ==
    /\ wpc[w] = "run"
    /\ wstage[w] = 1
    /\ LET cap == IF wloc[w].cap = "none"
                  THEN (IF video[1] = 1 THEN "open" ELSE "failed")
                  ELSE wloc[w].cap
       IN  \/ /\ cap = "open"
              /\ wloc[w].pos < video[2]
              /\ wres' = [wres EXCEPT ![w] = <<wdata[w][1], wloc[w].pos + 1>>]
              /\ wloc' = [wloc EXCEPT ![w] =
                            [k |-> @.k + 1, cap |-> cap, pos |-> @.pos + 1]]
              /\ wpc' = [wpc EXCEPT ![w] = "put"]
           \/ /\ cap # "open" \/ wloc[w].pos >= video[2]
              /\ wloc' = [wloc EXCEPT ![w].cap = "released"]
              /\ wpc' = [wpc EXCEPT ![w] = "get"]
              /\ UNCHANGED wres
    /\ UNCHANGED <<queue, process, nworkers, wstage, wdata, wkill, wwake,
                   ninputs, nstops, raised, h_start, c_pc, shown, video>>
    /\ UNCHANGED <<mvars, tvars, dvars, bvars, svars>>

\* detector_main resumed, lines 67-71: one result per frame, the message it
\* was given with the detected rectangles added
DetectorResume(w) ==
    /\ wpc[w] = "run"
    /\ wstage[w] = 2
    /\ \/ /\ wloc[w].k = 0
          /\ wres' = [wres EXCEPT ![w] = wdata[w]]
          /\ wloc' = [wloc EXCEPT ![w].k = 1]
          /\ wpc' = [wpc EXCEPT ![w] = "put"]
       \/ /\ wloc[w].k = 1
          /\ wpc' = [wpc EXCEPT ![w] = "get"]
          /\ UNCHANGED <<wres, wloc>>
    /\ UNCHANGED <<queue, process, nworkers, wstage, wdata, wkill, wwake,
                   ninputs, nstops, raised, h_start, c_pc, shown, video>>
    /\ UNCHANGED <<mvars, tvars, dvars, bvars, svars>>

\* presenter_main, lines 97-98
MainStart ==
    /\ c_pc \in {"start_streamer", "start_detector"}
    /\ Start(IF c_pc = "start_streamer" THEN 1 ELSE 2)
    /\ c_pc' = IF c_pc = "start_streamer" THEN "start_detector" ELSE "input"
    /\ UNCHANGED <<shown, video>>
    /\ UNCHANGED <<mvars, tvars, dvars, bvars, svars>>

\* lines 100-102
MainInput ==
    /\ c_pc = "input"
    /\ InputEffect(1, <<1, 0>>)
    /\ ninputs' = ninputs + 1
    /\ raised' = FALSE
    /\ c_pc' = "loop"
    /\ UNCHANGED <<shown, video>>
    /\ UNCHANGED <<mvars, tvars, dvars, bvars, svars>>

\* one turn of the loop, lines 105-113: display_queue.get() blocks until a
\* message is there; the frame is shown; the q key ends the loop
MainShow ==
    /\ c_pc = "loop"
    /\ queue[3] # <<>>
    /\ queue' = [queue EXCEPT ![3] = QueueTake(@).rest]
    /\ shown' = Append(shown, QueueTake(queue[3]).msg[2])
    /\ \/ c_pc' = "loop"
       \/ c_pc' = "stop_detector"
    /\ UNCHANGED <<process, nworkers, wstage, wpc, wdata, wres, wloc, wkill,
                   wwake, ninputs, nstops, raised, h_start, video>>
    /\ UNCHANGED <<mvars, tvars, dvars, bvars, svars>>

\* the finally clause, lines 115-116
MainStop ==
    /\ c_pc \in {"stop_detector", "stop_streamer"}
    /\ StopEffect(IF c_pc = "stop_detector" THEN 2 ELSE 1)
    /\ nstops' = nstops + 1
    /\ c_pc' = IF c_pc = "stop_detector" THEN "stop_streamer" ELSE "end"
    /\ UNCHANGED <<ninputs, shown, video>>
    /\ UNCHANGED <<mvars, tvars, dvars, bvars, svars>>

---------------------------------------------------------------------------
\* motion_detection_process (motion_detector.py 116-163)
\*
\* Lines 132-138 turn the frame into the blurred grey image `gray`, the same
\* image for the same frame.  The frames of the model are of one grey level
\* throughout, 640 x 480: `gray` is that level in every pixel, and so is
\* every image computed from it.  ctx['avg_frame_gray'] is an array of
\* floats; accumulateWeighted with weight 0.5 halves and adds, which is
\* exact in binary floating point, so the model keeps num / 2^exp.

\* most calls of motion_detection_process on one context
MaxDetCalls == 4

\* the grey levels of the frames
GrayLevels == {0, 30, 130, 255}

\* the whole frame, in the coordinates of the frame
FrameRect == <<0, 0, 640, 480>>

\* cv2.threshold(frameDelta, 25, 255, cv2.THRESH_BINARY)
DiffThreshold == 25

\* motion_detection_ctx(): 'avg_frame_gray': None
NoModel == [set |-> FALSE, num |-> 0, exp |-> 0]

RECURSIVE Pow2(_)
Pow2(n) == IF n = 0 THEN 1 ELSE 2 * Pow2(n - 1)

IsUninit_always(avg) == TRUE

\* line 140: ctx['avg_frame_gray'] is None is None, a chained comparison:
\* (avg is None) and (None is None)
IsUninit(avg) == (~avg.set) /\ TRUE

\* line 141: gray.copy().astype("float")
Seeded(gray) == [set |-> TRUE, num |-> gray, exp |-> 0]

\* line 143: avg = 0.5 * avg + 0.5 * gray
AccumulateWeighted(gray, avg) ==
    [set |-> TRUE, num |-> avg.num + gray * Pow2(avg.exp), exp |-> avg.exp + 1]

\* cv2.convertScaleAbs: the absolute value rounded to the nearest integer
\* (a half to the even neighbour), saturated to 8 bits
ConvertScaleAbs(avg) == Min2(RoundDiv(avg.num, Pow2(avg.exp)), 255)

\* cv2.absdiff on 8-bit images
AbsDiff(a, b) == IF a >= b THEN a - b ELSE b - a

RECURSIVE MergeLoop(_)
\* the while loop of merge_rects, lines 104-113
MergeLoop(rects) ==
    IF MergeAt(rects) = {} THEN rects
    ELSE MergeLoop(MergePair(rects, SetMin(MergeAt(rects))))

\* merge_rects(rects) as a function of the list passed
merge_rects(rects) == MergeLoop(ListSort(rects))

\* lines 145-162 on an image of one level: above the threshold every pixel
\* of thresh is 255, the one contour is the border of the image, far larger
\* than min_area, and its bounding box scaled back is the whole frame; at
\* or below the threshold thresh is black and there is no contour
DetectedRects(gray, avg) ==
    IF AbsDiff(gray, ConvertScaleAbs(avg)) > DiffThreshold
    THEN <<FrameRect>>
    ELSE <<>>

\* motion_detection_process(ctx, frame), frame of grey level gray
Detect(gray) ==
    /\ Len(d_frames) < MaxDetCalls
    /\ d_frames' = Append(d_frames, gray)
    /\ IF IsUninit(d_avg)
       THEN /\ d_avg' = Seeded(gray)
            /\ d_ret' = <<>>
            /\ d_branch' = "seed"
            /\ d_seeds' = d_seeds + 1
       ELSE /\ d_avg' = AccumulateWeighted(gray, d_avg)
            /\ d_ret' = merge_rects(DetectedRects(gray, AccumulateWeighted(gray, d_avg)))
            /\ d_branch' = "diff"
            /\ UNCHANGED d_seeds
    /\ UNCHANGED <<mvars, tvars, pvars, bvars, svars>>

---------------------------------------------------------------------------
\* bounding_rect (motion_detector.py 72-87) on a list of any length

RECURSIVE SeqMin(_)
\* min(list)
SeqMin(s) == IF Len(s) = 1 THEN s[1] ELSE Min2(s[1], SeqMin(Tail(s)))

RECURSIVE SeqMax(_)
\* max(list)
SeqMax(s) == IF Len(s) = 1 THEN s[1] ELSE Max2(s[1], SeqMax(Tail(s)))

\* [r[c] for r in rects]
Column(rects, c) == [i \in 1..Len(rects) |-> rects[i][c]]

\* bounding_rect(rects), lines 84-87
bounding_rect(rects) ==
    <<SeqMin(Column(rects, 1)), SeqMin(Column(rects, 2)),
      SeqMax(Column(rects, 3)), SeqMax(Column(rects, 4))>>

\* a call of bounding_rect
BoundingRect ==
    /\ b_rects # <<>>
    /\ b_ret = <<>>
    /\ b_ret' = <<bounding_rect(b_rects)>>
    /\ UNCHANGED <<b_rects, mvars, tvars, pvars, dvars, svars>>

---------------------------------------------------------------------------
\* One SmoothRect fed rectangle after rectangle (utils.py 46-82)

\* most rectangles one SmoothRect receives
MaxObs == 32

\* most changes of rectangle in what one SmoothRect receives
MaxTurns == 2

\* the rectangles it receives
WindowRectSet == {<<0, 1, 4, 6>>, <<3, 5, 9, 8>>}

\* r.update(rect)
Observe(rect) ==
    /\ Len(s_obs) < MaxObs
    /\ s_turns + (IF rect = s_obs[Len(s_obs)] THEN 0 ELSE 1) <= MaxTurns
    /\ s_turns' = s_turns + (IF rect = s_obs[Len(s_obs)] THEN 0 ELSE 1)
    /\ s_sr' = SmoothRect_update(s_sr, rect)
    /\ s_obs' = Append(s_obs, rect)
    /\ UNCHANGED <<mvars, tvars, pvars, dvars, bvars>>

---------------------------------------------------------------------------
\* Specifications.

\* merge_rects called on a list, then on the list it returned
MergeInit ==
    /\ m_rects \in SeqsUpTo(MergeRectSet, MaxRects)
    /\ m_args = <<m_rects>>
    /\ m_pc = "sort"
    /\ m_ret = <<>>
    /\ m_passes = 0
    /\ smoothRects = <<>>
    /\ ent = <<>>
    /\ nextId = 1
    /\ t_calls = 0
    /\ t_rects = <<>>
    /\ t_prev = <<>>
    /\ t_prevEnt = <<>>
    /\ t_matched = {}
    /\ t_created = {}
    /\ t_dropped = {}
    /\ queue = [i \in 1..3 |-> <<>>]
    /\ process = [s \in Stages |-> 0]
    /\ nworkers = 0
    /\ wstage = [w \in Workers |-> 0]
    /\ wpc = [w \in Workers |-> "unborn"]
    /\ wdata = [w \in Workers |-> None]
    /\ wres = [w \in Workers |-> None]
    /\ wloc = [w \in Workers |-> NoLoc]
    /\ wkill = [w \in Workers |-> FALSE]
    /\ wwake = [w \in Workers |-> FALSE]
    /\ ninputs = 0
    /\ nstops = 0
    /\ raised = FALSE
    /\ h_start = <<0, 0, 0>>
    /\ c_pc = "off"
    /\ shown = <<>>
    /\ video = <<0, 0>>
    /\ d_avg = NoModel
    /\ d_frames = <<>>
    /\ d_ret = <<>>
    /\ d_branch = "none"
    /\ d_seeds = 0
    /\ b_rects = <<>>
    /\ b_ret = <<>>
    /\ s_sr = [x1 |-> <<>>, y1 |-> <<>>, x2 |-> <<>>, y2 |-> <<>>]
    /\ s_obs = <<>>
    /\ s_turns = 0

MergeNext == MergeSort \/ MergePass \/ MergeReturn \/ MergeAgain

SpecMerge == MergeInit /\ [][MergeNext]_vars

\* a RectMatcher as constructed, then calls of set()
TrackInit ==
    /\ m_args = <<>>
    /\ m_rects = <<>>
    /\ m_pc = "off"
    /\ m_ret = <<>>
    /\ m_passes = 0
    /\ smoothRects = <<>>
    /\ ent = <<>>
    /\ nextId = 1
    /\ t_calls = 0
    /\ t_rects = <<>>
    /\ t_prev = <<>>
    /\ t_prevEnt = <<>>
    /\ t_matched = {}
    /\ t_created = {}
    /\ t_dropped = {}
    /\ queue = [i \in 1..3 |-> <<>>]
    /\ process = [s \in Stages |-> 0]
    /\ nworkers = 0
    /\ wstage = [w \in Workers |-> 0]
    /\ wpc = [w \in Workers |-> "unborn"]
    /\ wdata = [w \in Workers |-> None]
    /\ wres = [w \in Workers |-> None]
    /\ wloc = [w \in Workers |-> NoLoc]
    /\ wkill = [w \in Workers |-> FALSE]
    /\ wwake = [w \in Workers |-> FALSE]
    /\ ninputs = 0
    /\ nstops = 0
    /\ raised = FALSE
    /\ h_start = <<0, 0, 0>>
    /\ c_pc = "off"
    /\ shown = <<>>
    /\ video = <<0, 0>>
    /\ d_avg = NoModel
    /\ d_frames = <<>>
    /\ d_ret = <<>>
    /\ d_branch = "none"
    /\ d_seeds = 0
    /\ b_rects = <<>>
    /\ b_ret = <<>>
    /\ s_sr = [x1 |-> <<>>, y1 |-> <<>>, x2 |-> <<>>, y2 |-> <<>>]
    /\ s_obs = <<>>
    /\ s_turns = 0

SpecTrack == TrackInit /\ [][TrackNext]_vars

\* a RectMatcher as constructed, one rectangle, then the same moved by 3
ShiftNext == SetFirst \/ SetShifted

SpecShift == TrackInit /\ [][ShiftNext]_vars

\* bounding_rect called on a list of one to MaxRects rectangles
BoundInit ==
    /\ m_args = <<>>
    /\ m_rects = <<>>
    /\ m_pc = "off"
    /\ m_ret = <<>>
    /\ m_passes = 0
    /\ smoothRects = <<>>
    /\ ent = <<>>
    /\ nextId = 1
    /\ t_calls = 0
    /\ t_rects = <<>>
    /\ t_prev = <<>>
    /\ t_prevEnt = <<>>
    /\ t_matched = {}
    /\ t_created = {}
    /\ t_dropped = {}
    /\ queue = [i \in 1..3 |-> <<>>]
    /\ process = [s \in Stages |-> 0]
    /\ nworkers = 0
    /\ wstage = [w \in Workers |-> 0]
    /\ wpc = [w \in Workers |-> "unborn"]
    /\ wdata = [w \in Workers |-> None]
    /\ wres = [w \in Workers |-> None]
    /\ wloc = [w \in Workers |-> NoLoc]
    /\ wkill = [w \in Workers |-> FALSE]
    /\ wwake = [w \in Workers |-> FALSE]
    /\ ninputs = 0
    /\ nstops = 0
    /\ raised = FALSE
    /\ h_start = <<0, 0, 0>>
    /\ c_pc = "off"
    /\ shown = <<>>
    /\ video = <<0, 0>>
    /\ d_avg = NoModel
    /\ d_frames = <<>>
    /\ d_ret = <<>>
    /\ d_branch = "none"
    /\ d_seeds = 0
    /\ b_rects \in SeqsUpTo(MergeRectSet, MaxRects) \ {<<>>}
    /\ b_ret = <<>>
    /\ s_sr = [x1 |-> <<>>, y1 |-> <<>>, x2 |-> <<>>, y2 |-> <<>>]
    /\ s_obs = <<>>
    /\ s_turns = 0

SpecBound == BoundInit /\ [][BoundingRect]_vars

\* a SmoothRect as constructed from a rectangle, then updated
WindowInit ==
    /\ m_args = <<>>
    /\ m_rects = <<>>
    /\ m_pc = "off"
    /\ m_ret = <<>>
    /\ m_passes = 0
    /\ smoothRects = <<>>
    /\ ent = <<>>
    /\ nextId = 1
    /\ t_calls = 0
    /\ t_rects = <<>>
    /\ t_prev = <<>>
    /\ t_prevEnt = <<>>
    /\ t_matched = {}
    /\ t_created = {}
    /\ t_dropped = {}
    /\ queue = [i \in 1..3 |-> <<>>]
    /\ process = [s \in Stages |-> 0]
    /\ nworkers = 0
    /\ wstage = [w \in Workers |-> 0]
    /\ wpc = [w \in Workers |-> "unborn"]
    /\ wdata = [w \in Workers |-> None]
    /\ wres = [w \in Workers |-> None]
    /\ wloc = [w \in Workers |-> NoLoc]
    /\ wkill = [w \in Workers |-> FALSE]
    /\ wwake = [w \in Workers |-> FALSE]
    /\ ninputs = 0
    /\ nstops = 0
    /\ raised = FALSE
    /\ h_start = <<0, 0, 0>>
    /\ c_pc = "off"
    /\ shown = <<>>
    /\ video = <<0, 0>>
    /\ d_avg = NoModel
    /\ d_frames = <<>>
    /\ d_ret = <<>>
    /\ d_branch = "none"
    /\ d_seeds = 0
    /\ b_rects = <<>>
    /\ b_ret = <<>>
    /\ s_obs \in {<<r>> : r \in WindowRectSet}
    /\ s_sr = SmoothRect_new(s_obs[1])
    /\ s_turns = 0

WindowNext == \E rect \in WindowRectSet : Observe(rect)

SpecWindow == WindowInit /\ [][WindowNext]_vars

\* a context as motion_detection_ctx returns it, then calls of
\* motion_detection_process on it (the other components idle, as in
\* TrackInit)
DetectNext == \E gray \in GrayLevels : Detect(gray)

SpecDetect == TrackInit /\ [][DetectNext]_vars

\* a PipelineStep as constructed, its methods called in any order
StageInit ==
    /\ m_args = <<>>
    /\ m_rects = <<>>
    /\ m_pc = "off"
    /\ m_ret = <<>>
    /\ m_passes = 0
    /\ smoothRects = <<>>
    /\ ent = <<>>
    /\ nextId = 1
    /\ t_calls = 0
    /\ t_rects = <<>>
    /\ t_prev = <<>>
    /\ t_prevEnt = <<>>
    /\ t_matched = {}
    /\ t_created = {}
    /\ t_dropped = {}
    /\ queue = [i \in 1..3 |-> <<>>]
    /\ process = [s \in Stages |-> 0]
    /\ nworkers = 0
    /\ wstage = [w \in Workers |-> 0]
    /\ wpc = [w \in Workers |-> "unborn"]
    /\ wdata = [w \in Workers |-> None]
    /\ wres = [w \in Workers |-> None]
    /\ wloc = [w \in Workers |-> NoLoc]
    /\ wkill = [w \in Workers |-> FALSE]
    /\ wwake = [w \in Workers |-> FALSE]
    /\ ninputs = 0
    /\ nstops = 0
    /\ raised = FALSE
    /\ h_start = <<0, 0, 0>>
    /\ c_pc = "off"
    /\ shown = <<>>
    /\ video = <<0, 0>>
    /\ d_avg = NoModel
    /\ d_frames = <<>>
    /\ d_ret = <<>>
    /\ d_branch = "none"
    /\ d_seeds = 0
    /\ b_rects = <<>>
    /\ b_ret = <<>>
    /\ s_sr = [x1 |-> <<>>, y1 |-> <<>>, x2 |-> <<>>, y2 |-> <<>>]
    /\ s_obs = <<>>
    /\ s_turns = 0

StageNext ==
    \/ CallStart
    \/ CallInput
    \/ CallStop
    \/ CallOutput
    \/ \E w \in Workers : WorkerGet(w)
    \/ \E w \in Workers : WorkerResume(w)
    \/ \E w \in Workers : WorkerPut(w)
    \/ \E w \in Workers : KillDeliver(w)

SpecStage == StageInit /\ [][StageNext]_vars

\* every process that can take a step eventually takes one, and a signal
\* that was sent is eventually delivered
StageFairness ==
    \A w \in Workers :
        /\ WF_vars(WorkerGet(w))
        /\ WF_vars(WorkerResume(w))
        /\ WF_vars(WorkerPut(w))
        /\ WF_vars(KillDeliver(w))

FairSpecStage == StageInit /\ [][StageNext]_vars /\ StageFairness

\* presenter_main on an input file
PipeInit ==
    /\ m_args = <<>>
    /\ m_rects = <<>>
    /\ m_pc = "off"
    /\ m_ret = <<>>
    /\ m_passes = 0
    /\ smoothRects = <<>>
    /\ ent = <<>>
    /\ nextId = 1
    /\ t_calls = 0
    /\ t_rects = <<>>
    /\ t_prev = <<>>
    /\ t_prevEnt = <<>>
    /\ t_matched = {}
    /\ t_created = {}
    /\ t_dropped = {}
    /\ queue = [i \in 1..3 |-> <<>>]
    /\ process = [s \in Stages |-> 0]
    /\ nworkers = 0
    /\ wstage = [w \in Workers |-> 0]
    /\ wpc = [w \in Workers |-> "unborn"]
    /\ wdata = [w \in Workers |-> None]
    /\ wres = [w \in Workers |-> None]
    /\ wloc = [w \in Workers |-> NoLoc]
    /\ wkill = [w \in Workers |-> FALSE]
    /\ wwake = [w \in Workers |-> FALSE]
    /\ ninputs = 0
    /\ nstops = 0
    /\ raised = FALSE
    /\ h_start = <<0, 0, 0>>
    /\ c_pc = "start_streamer"
    /\ shown = <<>>
    /\ video \in {0, 1} \X (0..MaxFrames)
    /\ d_avg = NoModel
    /\ d_frames = <<>>
    /\ d_ret = <<>>
    /\ d_branch = "none"
    /\ d_seeds = 0
    /\ b_rects = <<>>
    /\ b_ret = <<>>
    /\ s_sr = [x1 |-> <<>>, y1 |-> <<>>, x2 |-> <<>>, y2 |-> <<>>]
    /\ s_obs = <<>>
    /\ s_turns = 0

PipeNext ==
    \/ MainStart
    \/ MainInput
    \/ MainShow
    \/ MainStop
    \/ \E w \in Workers : WorkerGet(w)
    \/ \E w \in Workers : StreamerResume(w)
    \/ \E w \in Workers : DetectorResume(w)
    \/ \E w \in Workers : WorkerPut(w)
    \/ \E w \in Workers : KillDeliver(w)

SpecPipe == PipeInit /\ [][PipeNext]_vars

\* the workers and the coordinator are separate processes that all get to
\* run; nobody is bound to press q
PipeFairness ==
    /\ WF_vars(MainStart)
    /\ WF_vars(MainInput)
    /\ WF_vars(MainShow)
    /\ WF_vars(MainStop)
    /\ \A w \in Workers :
        /\ WF_vars(WorkerGet(w))
        /\ WF_vars(StreamerResume(w))
        /\ WF_vars(DetectorResume(w))
        /\ WF_vars(WorkerPut(w))
        /\ WF_vars(KillDeliver(w))

FairSpecPipe == PipeInit /\ [][PipeNext]_vars /\ PipeFairness

---------------------------------------------------------------------------
\* Properties of merge_rects.

\* C1: in every list merge_rects returns, every pair of distinct rectangles
\* has a center distance of at least the larger of the two diagonals, that
\* is, no pair that satisfies the merge condition is left.
C1_MergeComplete ==
    \A c \in 1..Len(m_ret) :
        \A i, j \in 1..Len(m_ret[c]) :
            i # j => ~MergeCond(m_ret[c][i], m_ret[c][j])

\* C2: merge_rects applied to the list merge_rects returned returns the
\* same rectangles in the same order.
C2_Idempotent == Len(m_ret) = 2 => m_ret[2] = m_ret[1]

\* the first call merged a pair of three rectangles and left two that
\* still satisfy the merge condition; the second call is over
C2_Witness ==
    /\ Len(m_ret) = 2
    /\ Len(m_args[1]) = 3
    /\ Len(m_ret[1]) = 2
    /\ MergeCond(m_ret[1][1], m_ret[1][2])

\* the list the caller passed to the call of merge_rects in progress, or
\* to the last one
CallerList == m_args[Len(m_args)]

\* C11: a call of merge_rects leaves the caller's list as it was: when the
\* call has returned, the list holds the same rectangles in the same order.
C11_Pure == m_pc = "idle" => m_rects = CallerList

\* C12: the while loop of merge_rects makes a bounded number of passes: a
\* pass that merges makes the list exactly one shorter, a pass that does
\* not merge ends the loop with the list as it is, the passes made plus the
\* length of the list stay equal to the number n of rectangles passed, and
\* a call makes at most n - 1 merging passes (none for n = 0).
C12_Terminates ==
    /\ [][(m_pc = "while" /\ m_pc' = "while")
            => (/\ Len(m_rects') = Len(m_rects) - 1
                /\ m_passes' = m_passes + 1)]_vars
    /\ [][(m_pc = "while" /\ m_pc' # "while")
            => (m_pc' = "return" /\ m_rects' = m_rects)]_vars
    /\ [](m_pc # "sort" => m_passes + Len(m_rects) = Len(CallerList))
    /\ [](m_passes <= Max2(Len(CallerList) - 1, 0))

\* a call on three rectangles has returned after one merging pass
C12_Witness ==
    /\ m_pc = "idle"
    /\ Len(CallerList) = 3
    /\ m_passes = 1

\* C13: called on exactly two rectangles, merge_rects returns their
\* bounding rectangle alone when their center distance is less than the
\* larger of the two diagonals, and both rectangles unchanged otherwise.
C13_TwoRects ==
    \A c \in 1..Len(m_ret) :
        Len(m_args[c]) = 2
            => m_ret[c] = IF MergeCond(m_args[c][1], m_args[c][2])
                          THEN <<bounding_rect2(m_args[c][1], m_args[c][2])>>
                          ELSE m_args[c]

\* rectangle inner lies within rectangle outer
Contains(outer, inner) ==
    /\ outer[1] <= inner[1] /\ outer[2] <= inner[2]
    /\ inner[3] <= outer[3] /\ inner[4] <= outer[4]

WellFormed(r) == r[1] <= r[3] /\ r[2] <= r[4]

SetMax(S) == CHOOSE x \in S : \A y \in S : y <= x

\* the smallest rectangle around the rectangles of a list at the positions S
BoundOf(rects, S) ==
    <<SetMin({rects[i][1] : i \in S}), SetMin({rects[i][2] : i \in S}),
      SetMax({rects[i][3] : i \in S}), SetMax({rects[i][4] : i \in S})>>

\* C22: every rectangle passed to merge_rects lies within some rectangle of
\* the list returned, every rectangle returned is well-formed, and every
\* rectangle returned is the bounding rectangle of some of the rectangles
\* passed (of one only when it is one of them).
C22_Coverage ==
    \A c \in 1..Len(m_ret) :
        /\ \A i \in 1..Len(m_args[c]) :
              \E j \in 1..Len(m_ret[c]) : Contains(m_ret[c][j], m_args[c][i])
        /\ \A j \in 1..Len(m_ret[c]) :
              /\ WellFormed(m_ret[c][j])
              /\ \E S \in SUBSET (1..Len(m_args[c])) \ {{}} :
                    m_ret[c][j] = BoundOf(m_args[c], S)

\* a call has merged, and returned a rectangle that is none of those passed
C22_Witness ==
    /\ Len(m_ret) >= 1
    /\ Len(m_args[1]) = 3
    /\ Len(m_ret[1]) = 2
    /\ \A i \in 1..3 : m_ret[1][1] # m_args[1][i]

---------------------------------------------------------------------------
\* Properties of RectMatcher.

\* the objects in a list
Tracked(list) == Range(list)

\* C3: after every call of set() the tracked objects are exactly those the
\* call updated plus those it constructed; an object tracked before the
\* call that the call did not update is gone (so set([]) leaves nothing),
\* and an object that was dropped once is never tracked again.
C3_ImmediateDrop ==
    /\ Tracked(smoothRects) = t_matched \cup t_created
    /\ t_matched \subseteq Tracked(t_prev)
    /\ t_created \cap Tracked(t_prev) = {}
    /\ \A e \in Tracked(t_prev) \ t_matched : e \notin Tracked(smoothRects)
    /\ (t_calls > 0 /\ t_rects = <<>>) => smoothRects = <<>>
    /\ Tracked(smoothRects) \cap t_dropped = {}
    /\ t_created \cap t_dropped = {}

\* a call that updated one object, constructed another and dropped a third
C3_Witness ==
    /\ t_calls >= 2
    /\ t_matched # {}
    /\ t_created # {}
    /\ Tracked(t_prev) \ t_matched # {}
    /\ t_dropped # {}

RECURSIVE Feed(_, _)
\* a SmoothRect after it received the rectangles of a list in order
Feed(sr, rects) ==
    IF rects = <<>> THEN sr
    ELSE Feed(SmoothRect_update(sr, Head(rects)), Tail(rects))

RECURSIVE Select(_, _, _)
\* the rectangles rects[j], j = from..k-1, that the last call attached to e
Select(e, from, k) ==
    IF from >= k THEN <<>>
    ELSE (IF smoothRects[from] = e THEN <<t_rects[from]>> ELSE <<>>)
            \o Select(e, from + 1, k)

\* the smoothed rectangle of object e when the last call reached rects[k]
RectBefore(e, k) == SmoothRect_rect(Feed(t_prevEnt[e], Select(e, 1, k)))

\* positions in the list as it stood before the call whose object was then
\* less than the threshold away from rects[k]
NearPositions(k) ==
    {p \in 1..Len(t_prev) : Near(t_rects[k], RectBefore(t_prev[p], k))}

EmptyRect == [x1 |-> <<>>, y1 |-> <<>>, x2 |-> <<>>, y2 |-> <<>>]

\* C4: every rectangle of a call is attached to the first object, in the
\* order of the list before the call, whose current smoothed rectangle is
\* less than the threshold away, even if a later one is closer, and to a
\* new object if there is none; an object's windows grow by exactly the
\* rectangles attached to it.
C4_GreedyFirstMatch ==
    /\ Len(smoothRects) = Len(t_rects)
    /\ \A k \in 1..Len(t_rects) :
          IF NearPositions(k) # {}
          THEN smoothRects[k] = t_prev[SetMin(NearPositions(k))]
          ELSE smoothRects[k] \in t_created
    /\ \A e \in Tracked(smoothRects) :
          ent[e] = Feed(IF e \in Tracked(t_prev) THEN t_prevEnt[e] ELSE EmptyRect,
                        Select(e, 1, Len(t_rects) + 1))

\* a rectangle was attached to the first near object although an object
\* later in the list was strictly closer
C4_Witness ==
    \E k \in 1..Len(t_rects) :
        /\ NearPositions(k) # {}
        /\ smoothRects[k] = t_prev[SetMin(NearPositions(k))]
        /\ \E p \in NearPositions(k) :
              /\ p > SetMin(NearPositions(k))
              /\ rect_dist_sq4(t_rects[k], RectBefore(t_prev[p], k))
                   < rect_dist_sq4(t_rects[k],
                        RectBefore(t_prev[SetMin(NearPositions(k))], k))

\* the rectangle a SmoothRect was constructed from
FirstObservation(sr) == <<sr.x1[1], sr.y1[1], sr.x2[1], sr.y2[1]>>

\* the second of two calls of set(), each with one rectangle, the second
\* rectangle being the first moved by 3
TwoFrames ==
    /\ t_calls = 2
    /\ Len(t_prev) = 1
    /\ Len(t_rects) = 1
    /\ t_rects[1] = Shifted(FirstObservation(t_prevEnt[t_prev[1]]))

\* C14: after set([R]) on an empty tracker and set([R']) with R' = R moved
\* by 3, the object constructed for R is the one tracked, none was
\* constructed by the second call, it holds two observations, and every
\* coordinate of its smoothed rectangle is strictly between that of R and
\* that of R'.
C14_SmoothTwoFrames ==
    TwoFrames =>
        /\ smoothRects = t_prev
        /\ t_created = {}
        /\ t_matched = Tracked(t_prev)
        /\ \A e \in Tracked(smoothRects) :
              /\ ent[e] = SmoothRect_update(t_prevEnt[e], t_rects[1])
              /\ Len(ent[e].x1) = 2 /\ Len(ent[e].y1) = 2
              /\ Len(ent[e].x2) = 2 /\ Len(ent[e].y2) = 2
              /\ \A c \in 1..4 :
                    /\ FirstObservation(t_prevEnt[e])[c] < SmoothRect_rect(ent[e])[c]
                    /\ SmoothRect_rect(ent[e])[c] < t_rects[1][c]

\* the two frames have been handed in, with means that end in .5 both
\* above an even and above an odd number
C14_Witness ==
    /\ TwoFrames
    /\ t_rects[1][1] = 3
    /\ t_rects[1][3] = 4

\* the centers of the two rectangles are more than the threshold apart
Far(a, b) == rect_dist_sq4(a, b) > 4 * MatchDist * MatchDist

\* rects[k] of the last call was, when the call reached it, far from the
\* smoothed rectangle of every object tracked before the call
Unmatched(k) ==
    \A p \in 1..Len(t_prev) : Far(t_rects[k], RectBefore(t_prev[p], k))

\* C15: a rectangle of a call of set() that is more than the threshold away
\* from every tracked object gets an object constructed in that call, which
\* holds that one observation only and whose smoothed rectangle is the
\* rectangle itself; when the call carries only such a rectangle, the
\* tracked list afterwards is that new object alone and every object
\* tracked before is gone.
C15_FreshEntity ==
    \A k \in 1..Len(t_rects) :
        Unmatched(k) =>
            /\ smoothRects[k] \in t_created
            /\ smoothRects[k] \notin Tracked(t_prev)
            /\ \A j \in 1..Len(t_rects) : j # k => smoothRects[j] # smoothRects[k]
            /\ ent[smoothRects[k]] =
                   [x1 |-> <<t_rects[k][1]>>, y1 |-> <<t_rects[k][2]>>,
                    x2 |-> <<t_rects[k][3]>>, y2 |-> <<t_rects[k][4]>>]
            /\ SmoothRect_rect(ent[smoothRects[k]]) = t_rects[k]
            /\ Len(t_rects) = 1 =>
                  /\ Len(smoothRects) = 1
                  /\ Tracked(smoothRects) \cap Tracked(t_prev) = {}
                  /\ Tracked(t_prev) \subseteq t_dropped

\* two calls in a row carried one rectangle far from what was tracked: the
\* object of the first of them has been replaced by a new one
C15_Witness ==
    /\ t_calls = 3
    /\ Len(t_rects) = 1
    /\ Unmatched(1)
    /\ Len(t_prev) = 1
    /\ t_prev[1] \in t_dropped
    /\ Len(t_prevEnt[t_prev[1]].x1) = 1
    /\ nextId = 4

\* C20: after every call of set() no object is at two positions of the
\* tracked list, and no object has received more than one rectangle in the
\* call.
C20_NoDuplicates ==
    /\ \A i, j \in 1..Len(smoothRects) :
          i # j => smoothRects[i] # smoothRects[j]
    /\ \A e \in t_matched : Len(ent[e].x1) <= Len(t_prevEnt[e].x1) + 1

---------------------------------------------------------------------------
\* Properties of bounding_rect.

\* C17: the rectangle bounding_rect returns for a non-empty list of
\* well-formed rectangles contains every member, and each of its four
\* coordinates is that coordinate of some member.
C17_BoundingContains ==
    b_ret # <<>> =>
        /\ \A i \in 1..Len(b_rects) :
              /\ b_ret[1][1] <= b_rects[i][1]
              /\ b_ret[1][2] <= b_rects[i][2]
              /\ b_rects[i][3] <= b_ret[1][3]
              /\ b_rects[i][4] <= b_ret[1][4]
        /\ \A c \in 1..4 : \E i \in 1..Len(b_rects) : b_ret[1][c] = b_rects[i][c]

\* the bounding rectangle of three rectangles is none of them, and its
\* left edge is not that of the first
C17_Witness ==
    /\ b_ret # <<>>
    /\ Len(b_rects) = 3
    /\ \A i \in 1..3 : b_ret[1] # b_rects[i]
    /\ b_ret[1][1] < b_rects[1][1]

---------------------------------------------------------------------------
\* Properties of one SmoothRect.

\* the last n elements of a sequence
LastN(s, n) == SubSeq(s, Len(s) - n + 1, Len(s))

\* the window of coordinate c
WindowOf(c) ==
    IF c = 1 THEN s_sr.x1 ELSE IF c = 2 THEN s_sr.y1
    ELSE IF c = 3 THEN s_sr.x2 ELSE s_sr.y2

\* o is the integer nearest to sum / n, the even one of two equally near
RoundedMean(o, sum, n) ==
    /\ 2 * AbsDiff(n * o, sum) <= n
    /\ 2 * AbsDiff(n * o, sum) = n => o % 2 = 0

\* C18: after k >= 1 rectangles, each of the four windows of a SmoothRect
\* holds the last min(k, 30) values of its coordinate in arrival order, so
\* the four have one length, between 1 and 30, and each coordinate of
\* rect() is the rounded mean of its window.
C18_BoundedWindow ==
    /\ Len(s_obs) >= 1 =>
          \A c \in 1..4 :
              /\ WindowOf(c) = LastN(Column(s_obs, c), Min2(Len(s_obs), 30))
              /\ Len(WindowOf(c)) \in 1..30
              /\ Len(WindowOf(c)) = Len(WindowOf(1))
              /\ RoundedMean(SmoothRect_rect(s_sr)[c],
                             SeqSum(WindowOf(c)), Len(WindowOf(c)))

\* more than 30 rectangles have arrived, and the first, which has left the
\* windows, differs from those that remain
C18_Witness ==
    /\ Len(s_obs) > 30
    /\ s_obs[1] # s_obs[Len(s_obs)]
    /\ s_obs[Len(s_obs) - 1] # s_obs[Len(s_obs)]

---------------------------------------------------------------------------
\* Properties of motion_detection_process.

C19_IdenticalFrames ==
    (/\ Len(d_frames) >= 2
     /\ d_frames[Len(d_frames)] = d_frames[Len(d_frames) - 1])
        => d_ret = <<>>

---------------------------------------------------------------------------
\* Properties of a pipeline stage.

\* C5: a call of start() on a stage with no active worker spawns exactly
\* one worker, and a call on a stage with an active worker spawns none, in
\* every state reached by start(), input(), stop() and by workers ending on
\* the sentinel (no transform has raised).
C5_StartIdempotent ==
    (\A w \in Workers : wpc[w] # "crashed")
        => (h_start[1] # 0 => h_start[3] = 1 - h_start[2])

\* C6: once stop() has returned, the worker it stopped takes no further
\* step: no receive, no call of the transform, no put.
C6_NoWorkAfterStop ==
    [][\A w \in Workers :
          wkill[w] => (wpc'[w] = wpc[w] \/ wpc'[w] = "killed")]_vars

InputAfterStop(data) ==
    /\ nstops >= 1
    /\ \E w \in Workers : wkill[w]
    /\ process[1] # 0
    /\ queue[InQ(1)] # <<>>
    /\ queue[InQ(1)][Len(queue[InQ(1)])] = data

\* a worker has received data and called the transform on it
Applied(data) == \E w \in Workers : wdata[w] = data

\* C21: after stop() on a started stage, data handed to input() is
\* eventually received by a worker and given to the transform; the worker
\* spawned for it does not end on the None that stop() left in the queue.
C21_ReusableAfterStop ==
    \A d \in 1..MaxInputs :
        InputAfterStop(<<d, 0>>) ~> Applied(<<d, 0>>)

\* C10: when the transform raises, the reader of the output queue gets a
\* signal that the stage has ended: once the queue is drained, output()
\* returns something else than the None of "no data".
C10_FailureSurfaced ==
    \A w \in Workers :
        (wpc[w] = "crashed" /\ queue[OutQ(wstage[w])] = <<>>)
            => Output_result(wstage[w]) # None

---------------------------------------------------------------------------
\* Properties of the multi-process pipeline.

IsData(msg) == msg # None

\* the capture positions of the frames in a queue, in queue order (the
\* None that stop() puts is not a frame)
Frames(q) ==
    [i \in 1..Len(SelectSeq(q, IsData)) |-> SelectSeq(q, IsData)[i][2]]

Ascending(s) == \A i, j \in 1..Len(s) : i < j => s[i] < s[j]

\* C8: what a worker puts on its output queue is in the order of the
\* inputs it received and, per input, in the order the transform produced
\* it: the frames the streamer has put are in the order it read them, the
\* detector passes them on in that order, and presenter_main receives the
\* frames in capture order.
C8_FIFO ==
    /\ Ascending(Frames(queue[2]))
    /\ Ascending(shown \o Frames(queue[3]) \o Frames(queue[2]))
    /\ \A i \in 1..Len(shown) : shown[i] = i

\* two frames have been shown while a third waits behind them
C8_Witness ==
    /\ Len(shown) >= 2
    /\ Len(queue[2]) + Len(queue[3]) >= 1

\* the video was opened and the streamer has read past its last frame
Exhausted ==
    /\ video[1] = 1
    /\ \E w \in Workers : wstage[w] = 1 /\ wloc[w].cap = "released"

\* C9: once the frame source is exhausted, the run terminates: the loop of
\* presenter_main ends and both stages are stopped.
C9_OrderlyShutdown == Exhausted ~> (c_pc = "end")

===========================================================================
